---- MODULE Spec2Model ----
(***************************************************************************)
(* State-machine model of src/dashboard.py: a Streamlit script that loads  *)
(* an order table, derives total_item_revenue, sorts by delivery date,     *)
(* filters by the sidebar date range and renders four aggregations.        *)
(* Streamlit executes the script top to bottom on every interaction, so a  *)
(* run is the chain read_csv -> to_datetime -> derive -> sort -> bounds -> *)
(* date_input -> filter -> dashboard -> done, and Rerun starts the next.   *)
(*                                                                         *)
(* Numbers stand for the table's values: amounts, scores and durations are *)
(* naturals, a category name is a natural whose order is the lexicographic *)
(* order of the names, a timestamp is day * SlotsPerDay + time of day, a   *)
(* date is the day.  A mean is the pair <<sum, count>> of the non-missing  *)
(* values, so NaN (0/0) is <<0, 0>>.                                        *)
(***************************************************************************)
EXTENDS Integers, Sequences, FiniteSets

VARIABLES source, tie, pc, raised, df, base, min_date, max_date, widget,
          date_range, filtered_df, top_n, kpis, top_categories,
          delivery_review_analysis, avg_delivery, avg_review,
          performance_data, memo

vars == <<source, tie, pc, raised, df, base, min_date, max_date, widget,
          date_range, filtered_df, top_n, kpis, top_categories,
          delivery_review_analysis, avg_delivery, avg_review,
          performance_data, memo>>

----------------------------------------------------------------------------
(* Bounds of the model *)

MaxRows == 2
NumDays == 2
NumCategories == 2
MaxAmount == 1
MaxScore == 2
MaxDuration == 2
MaxTopN == 2

(* Program constants *)

DefaultTopN == 10

(* A missing cell: NaN in a numeric column, NaT in the datetime column. *)
Null == -1

(* Times of day of a delivery timestamp: midnight and later in the day. *)
TimesOfDay == {0, 1}
SlotsPerDay == Cardinality(TimesOfDay)

Days == 1..NumDays
Categories == 1..NumCategories

(* Cells of the CSV's order_delivered_customer_date column: empty, a      *)
(* well-formed <<day, time of day>>, or text that is no date.             *)
EmptyCell == <<>>
BadCell == <<0>>
DateCells == {<<d, s>> : d \in Days, s \in TimesOfDay}

----------------------------------------------------------------------------
(* Helpers over sequences *)

RECURSIVE SumSkipNa(_)
SumSkipNa(vals) ==
    IF vals = <<>> THEN 0
    ELSE (IF Head(vals) = Null THEN 0 ELSE Head(vals)) + SumSkipNa(Tail(vals))

RECURSIVE CountSkipNa(_)
CountSkipNa(vals) ==
    IF vals = <<>> THEN 0
    ELSE (IF Head(vals) = Null THEN 0 ELSE 1) + CountSkipNa(Tail(vals))

(* Series.mean(): sum / count over the non-missing values; 0/0 is NaN. *)
MeanSkipNa(vals) == <<SumSkipNa(vals), CountSkipNa(vals)>>

NaN == <<0, 0>>

Column(t, col) == [i \in 1..Len(t) |-> t[i][col]]

(* Series.nunique(): number of distinct non-missing values. *)
NUnique(vals) == Cardinality({vals[i] : i \in 1..Len(vals)} \ {Null})

(* Ascending sequence of a finite set of integers. *)
SortedSeq(S) ==
    [k \in 1..Cardinality(S) |->
        CHOOSE x \in S : Cardinality({y \in S : y < x}) = k - 1]

Perms(n) == {p \in [1..n -> 1..n] : \A i, j \in 1..n : i # j => p[i] # p[j]}

----------------------------------------------------------------------------
(* Timestamps and dates *)

(* pd.to_datetime on a CSV cell *)
ParseCell(c) == IF c = EmptyCell THEN Null ELSE c[1] * SlotsPerDay + c[2]

(* st.date_input turns the datetime it is given into a date *)
DateOf(t) == t \div SlotsPerDay

(* pd.to_datetime on a date: midnight of that day *)
ToDatetime(d) == d * SlotsPerDay

----------------------------------------------------------------------------
(* sort_values: kind='quicksort' is not stable, so rows with equal keys    *)
(* come out in an order the build decides.  tie ranks the positions of the *)
(* input: it is fixed for the build, and every order of equal keys is the  *)
(* outcome under some tie.                                                 *)

TieBeforeVaryingPerRun(i, j) ==
    IF memo.set THEN tie[i] > tie[j] ELSE tie[i] < tie[j]

TieBefore(i, j) == tie[i] < tie[j]

(* Missing keys go last (na_position='last'), in input order. *)
Precedes(keys, ascending, i, j) ==
    IF keys[i] = Null THEN keys[j] = Null /\ i < j
    ELSE IF keys[j] = Null THEN TRUE
    ELSE IF keys[i] # keys[j]
         THEN (IF ascending THEN keys[i] < keys[j] ELSE keys[i] > keys[j])
    ELSE TieBefore(i, j)

Argsort(keys, ascending) ==
    LET n == Len(keys) IN
    [k \in 1..n |->
        CHOOSE i \in 1..n :
            Cardinality({j \in 1..n : j # i /\ Precedes(keys, ascending, j, i)})
                = k - 1]

sort_values(t, by, ascending) ==
    LET ix == Argsort(Column(t, by), ascending) IN
    [k \in 1..Len(t) |-> t[ix[k]]]

head(t, n) == SubSeq(t, 1, IF n < Len(t) THEN n ELSE Len(t))

----------------------------------------------------------------------------
(* groupby: one group per distinct non-missing key, keys ascending *)

GroupKeysKeepNa(t, by) == SortedSeq({t[i][by] : i \in 1..Len(t)})

GroupKeys(t, by) == SortedSeq({t[i][by] : i \in 1..Len(t)} \ {Null})

GroupColumn(t, by, key, col) ==
    LET InGroup(r) == r[by] = key IN Column(SelectSeq(t, InGroup), col)

(* df.groupby(cat)[rev].sum().reset_index().sort_values(...).head(top_n) *)
get_top_total_item_revenue_categories(t, n) ==
    LET keys == GroupKeys(t, "product_category_name_english")
        sums == [k \in 1..Len(keys) |->
                   [product_category_name_english |-> keys[k],
                    total_item_revenue |->
                        SumSkipNa(GroupColumn(t, "product_category_name_english",
                                              keys[k], "total_item_revenue"))]]
    IN head(sort_values(sums, "total_item_revenue", FALSE), n)

(* df[['delivery_duration', 'review_score']].mean().reset_index() *)
analyze_delivery_and_review(t) ==
    << [metric |-> "delivery_duration",
        average_value |-> MeanSkipNa(Column(t, "delivery_duration"))],
       [metric |-> "review_score",
        average_value |-> MeanSkipNa(Column(t, "review_score"))] >>

(* df.groupby('review_score')['delivery_duration'].mean().reset_index() *)
plot_delivery_performance_by_review(t) ==
    LET keys == GroupKeys(t, "review_score") IN
    [k \in 1..Len(keys) |->
        [review_score |-> keys[k],
         delivery_duration |->
             MeanSkipNa(GroupColumn(t, "review_score", keys[k],
                                    "delivery_duration"))]]

display_kpis(t) ==
    [total_revenue |-> SumSkipNa(Column(t, "total_item_revenue")),
     total_orders |-> NUnique(Column(t, "order_id")),
     total_customers |-> NUnique(Column(t, "customer_id"))]

----------------------------------------------------------------------------
(* Module-level steps as operators *)

(* NaN + x is NaN *)
AddFillZero(a, b) ==
    (IF a = Null THEN 0 ELSE a) + (IF b = Null THEN 0 ELSE b)

Add(a, b) == IF a = Null \/ b = Null THEN Null ELSE a + b

Parsed(t) ==
    [i \in 1..Len(t) |->
        [t[i] EXCEPT !.order_delivered_customer_date = ParseCell(@)]]

(* df['total_item_revenue'] = df['price'] + df['freight_value'] *)
WithRevenue(t) ==
    [i \in 1..Len(t) |->
        [c \in DOMAIN t[i] \cup {"total_item_revenue"} |->
            IF c = "total_item_revenue"
            THEN Add(t[i].price, t[i].freight_value)
            ELSE t[i][c]]]

(* The boolean mask of the date filter; a comparison with NaT is False. *)
InRangeNoUpperBound(d, start_date, end_date) ==
    d # Null /\ d >= ToDatetime(start_date)

InRange(d, start_date, end_date) ==
    /\ d # Null
    /\ d >= ToDatetime(start_date)
    /\ d <= ToDatetime(end_date)

DateFilter(t, start_date, end_date) ==
    LET Keep(r) == InRange(r.order_delivered_customer_date, start_date, end_date)
    IN SelectSeq(t, Keep)

MinSkipNa(vals) ==
    LET S == {vals[i] : i \in 1..Len(vals)} \ {Null}
    IN CHOOSE x \in S : \A y \in S : x <= y

MaxSkipNa(vals) ==
    LET S == {vals[i] : i \in 1..Len(vals)} \ {Null}
    IN CHOOSE x \in S : \A y \in S : x >= y

----------------------------------------------------------------------------
(* The CSV: the tables the runs are checked on *)

Row(o, c, cat, p, f, cell, r, dur) ==
    [order_id |-> o, customer_id |-> c,
     product_category_name_english |-> cat,
     price |-> p, freight_value |-> f,
     order_delivered_customer_date |-> cell,
     review_score |-> r, delivery_duration |-> dur]

Amounts == {Null} \cup (0..MaxAmount)

DeliveredCell == <<1, 1>>

(* Distinct orders that differ in their delivery date cell. *)
DateTables ==
    UNION {{[i \in 1..n |-> Row(i, 1, 1, 1, 0, cells[i], 1, 1)] :
               cells \in [1..n -> DateCells \cup {EmptyCell, BadCell}]} :
           n \in 1..MaxRows}

(* Distinct orders of equal revenue that differ in their category. *)
CategoryTables ==
    UNION {{[i \in 1..n |-> Row(i, 1, cats[i], 1, 0, DeliveredCell, 1, 1)] :
               cats \in [1..n -> Categories]} :
           n \in 1..MaxRows}

(* Line items that differ in price and freight_value. *)
PriceTables ==
    UNION {{[i \in 1..n |-> Row(i, 1, 1, pf[i][1], pf[i][2], DeliveredCell, 1, 1)] :
               pf \in [1..n -> Amounts \X Amounts]} :
           n \in 1..MaxRows}

(* Line items that differ in category and price. *)
RevenueTables ==
    UNION {{[i \in 1..n |-> Row(i, 1, x[i][1], x[i][2], 0,
                                DeliveredCell, 1, 1)] :
               x \in [1..n -> (Categories \cup {Null})
                               \X ({Null} \cup (1..MaxAmount))]} :
           n \in 1..MaxRows}

(* Line items that differ in review_score and delivery_duration. *)
ReviewTables ==
    UNION {{[i \in 1..n |-> Row(i, 1, 1, 1, 0, DeliveredCell, x[i][1], x[i][2])] :
               x \in [1..n -> ((1..MaxScore) \cup {Null})
                               \X ((0..MaxDuration) \cup {Null})]} :
           n \in 1..MaxRows}

(* min_date and max_date exist, and the sidebar widget can be built, only *)
(* when some row has a delivery date cell.                                *)
HasDateCell(t) ==
    \E i \in 1..Len(t) : t[i].order_delivered_customer_date # EmptyCell

Identity(n) == [i \in 1..n |-> i]

----------------------------------------------------------------------------
(* State *)

NoKpis == [total_revenue |-> 0, total_orders |-> 0, total_customers |-> 0]

Outputs ==
    [kpis |-> kpis, top_categories |-> top_categories,
     delivery_review_analysis |-> delivery_review_analysis,
     avg_delivery |-> avg_delivery, avg_review |-> avg_review,
     performance_data |-> performance_data]

NoOutputs ==
    [kpis |-> NoKpis, top_categories |-> <<>>,
     delivery_review_analysis |-> <<>>,
     avg_delivery |-> NaN, avg_review |-> NaN,
     performance_data |-> <<>>]

NoMemo == [set |-> FALSE, out |-> NoOutputs]

(* The script's variables before its first statement has run. *)
Fresh ==
    /\ raised = "none"
    /\ df = <<>>
    /\ min_date = Null
    /\ max_date = Null
    /\ date_range = <<>>
    /\ filtered_df = <<>>
    /\ kpis = NoKpis
    /\ top_categories = <<>>
    /\ delivery_review_analysis = <<>>
    /\ avg_delivery = NaN
    /\ avg_review = NaN
    /\ performance_data = <<>>

Init ==
    /\ source \in {t \in DateTables \cup CategoryTables : HasDateCell(t)}
    /\ tie \in Perms(Len(source))
    /\ top_n = DefaultTopN
    /\ pc = "read_csv"
    /\ Fresh
    /\ base = [set |-> FALSE, table |-> <<>>]
    /\ widget = [set |-> FALSE, value |-> <<>>]
    /\ memo = NoMemo

----------------------------------------------------------------------------
(* Steps of one run of the script *)

(* line 161 *)
ReadCsv ==
    /\ pc = "read_csv"
    /\ df' = source
    /\ pc' = "to_datetime"
    /\ UNCHANGED <<source, tie, raised, base, min_date, max_date, widget,
                   date_range, filtered_df, top_n, kpis, top_categories,
                   delivery_review_analysis, avg_delivery, avg_review,
                   performance_data, memo>>

(* line 164: a cell that is no date raises and ends the run *)
ConvertDatetime ==
    /\ pc = "to_datetime"
    /\ IF \E i \in 1..Len(df) : df[i].order_delivered_customer_date = BadCell
       THEN /\ raised' = "ValueError"
            /\ pc' = "failed"
            /\ df' = df
       ELSE /\ df' = Parsed(df)
            /\ pc' = "derive"
            /\ raised' = raised
    /\ UNCHANGED <<source, tie, base, min_date, max_date, widget,
                   date_range, filtered_df, top_n, kpis, top_categories,
                   delivery_review_analysis, avg_delivery, avg_review,
                   performance_data, memo>>

(* line 167 *)
Derive ==
    /\ pc = "derive"
    /\ df' = WithRevenue(df)
    /\ pc' = "sort"
    /\ UNCHANGED <<source, tie, raised, base, min_date, max_date, widget,
                   date_range, filtered_df, top_n, kpis, top_categories,
                   delivery_review_analysis, avg_delivery, avg_review,
                   performance_data, memo>>

(* line 169; base remembers the table of the session's first run *)
SortByDate ==
    /\ pc = "sort"
    /\ df' = sort_values(df, "order_delivered_customer_date", TRUE)
    /\ base' = IF base.set THEN base ELSE [set |-> TRUE, table |-> df']
    /\ pc' = "bounds"
    /\ UNCHANGED <<source, tie, raised, min_date, max_date, widget,
                   date_range, filtered_df, top_n, kpis, top_categories,
                   delivery_review_analysis, avg_delivery, avg_review,
                   performance_data, memo>>

(* lines 172-173 *)
DateBounds ==
    /\ pc = "bounds"
    /\ min_date' = MinSkipNa(Column(df, "order_delivered_customer_date"))
    /\ max_date' = MaxSkipNa(Column(df, "order_delivered_customer_date"))
    /\ pc' = "date_input"
    /\ UNCHANGED <<source, tie, raised, df, base, widget,
                   date_range, filtered_df, top_n, kpis, top_categories,
                   delivery_review_analysis, avg_delivery, avg_review,
                   performance_data, memo>>

(* lines 182-187: the widget's value, [min_date, max_date] as dates until *)
(* the user has picked something                                          *)
DateInput ==
    /\ pc = "date_input"
    /\ date_range' = IF widget.set THEN widget.value
                     ELSE <<DateOf(min_date), DateOf(max_date)>>
    /\ pc' = "filter"
    /\ UNCHANGED <<source, tie, raised, df, base, min_date, max_date, widget,
                   filtered_df, top_n, kpis, top_categories,
                   delivery_review_analysis, avg_delivery, avg_review,
                   performance_data, memo>>

ApplyFilterInPlace ==
    /\ pc = "filter"
    /\ df' = IF Len(date_range) = 2
             THEN DateFilter(df, date_range[1], date_range[2])
             ELSE df
    /\ filtered_df' = df'
    /\ pc' = "dashboard"
    /\ UNCHANGED <<source, tie, raised, base, min_date, max_date, widget,
                   date_range, top_n, kpis, top_categories,
                   delivery_review_analysis, avg_delivery, avg_review,
                   performance_data, memo>>

ApplyFilterFromStart ==
    /\ pc = "filter"
    /\ filtered_df' =
          IF Len(date_range) = 2
          THEN DateFilter(df, date_range[1], date_range[2])
          ELSE IF Len(date_range) = 1
          THEN DateFilter(df, date_range[1], DateOf(max_date))
          ELSE df
    /\ pc' = "dashboard"
    /\ UNCHANGED <<source, tie, raised, df, base, min_date, max_date, widget,
                   date_range, top_n, kpis, top_categories,
                   delivery_review_analysis, avg_delivery, avg_review,
                   performance_data, memo>>

(* lines 190-201 *)
ApplyFilter ==
    /\ pc = "filter"
    /\ filtered_df' =
          IF Len(date_range) = 2
          THEN DateFilter(df, date_range[1], date_range[2])
          ELSE df
    /\ pc' = "dashboard"
    /\ UNCHANGED <<source, tie, raised, df, base, min_date, max_date, widget,
                   date_range, top_n, kpis, top_categories,
                   delivery_review_analysis, avg_delivery, avg_review,
                   performance_data, memo>>

(* line 203, main_dashboard(filtered_df): nothing in it raises, a mean of *)
(* no values is NaN and is formatted and shown as such                    *)
MainDashboard ==
    /\ pc = "dashboard"
    /\ kpis' = display_kpis(filtered_df)
    /\ top_categories' = get_top_total_item_revenue_categories(filtered_df, top_n)
    /\ delivery_review_analysis' = analyze_delivery_and_review(filtered_df)
    /\ avg_delivery' = MeanSkipNa(Column(filtered_df, "delivery_duration"))
    /\ avg_review' = MeanSkipNa(Column(filtered_df, "review_score"))
    /\ performance_data' = plot_delivery_performance_by_review(filtered_df)
    /\ pc' = "done"
    /\ UNCHANGED <<source, tie, raised, df, base, min_date, max_date, widget,
                   date_range, filtered_df, top_n, memo>>

(* What the date-range widget can hold: no, one or two dates between its  *)
(* min_value and max_value.  Nothing orders the two dates.                *)
Selections ==
    LET D == DateOf(min_date)..DateOf(max_date)
    IN {<<>>} \cup {<<d>> : d \in D} \cup {<<s, e>> : s \in D, e \in D}

(* The user changes the widget and Streamlit runs the script again from   *)
(* its first line, with fresh variables.  memo keeps what the run before  *)
(* rendered when the selection is the one that run was given.             *)
Rerun ==
    /\ pc = "done"
    /\ \E sel \in Selections :
          /\ widget' = [set |-> TRUE, value |-> sel]
          /\ memo' = IF sel = date_range
                     THEN [set |-> TRUE, out |-> Outputs]
                     ELSE NoMemo
    /\ pc' = "read_csv"
    /\ raised' = "none"
    /\ df' = <<>>
    /\ min_date' = Null
    /\ max_date' = Null
    /\ date_range' = <<>>
    /\ filtered_df' = <<>>
    /\ kpis' = NoKpis
    /\ top_categories' = <<>>
    /\ delivery_review_analysis' = <<>>
    /\ avg_delivery' = NaN
    /\ avg_review' = NaN
    /\ performance_data' = <<>>
    /\ UNCHANGED <<source, tie, base, top_n>>

Next ==
    \/ ReadCsv
    \/ ConvertDatetime
    \/ Derive
    \/ SortByDate
    \/ DateBounds
    \/ DateInput
    \/ ApplyFilter
    \/ MainDashboard
    \/ Rerun

Spec == Init /\ [][Next]_vars

----------------------------------------------------------------------------
(* The derivation on its own: tables that differ in price and freight,    *)
(* run up to line 167.                                                    *)

InitDerive ==
    /\ source \in PriceTables
    /\ tie = Identity(Len(source))
    /\ top_n = DefaultTopN
    /\ pc = "read_csv"
    /\ Fresh
    /\ base = [set |-> FALSE, table |-> <<>>]
    /\ widget = [set |-> FALSE, value |-> <<>>]
    /\ memo = NoMemo

NextDerive ==
    \/ ReadCsv
    \/ ConvertDatetime
    \/ Derive

SpecDerive == InitDerive /\ [][NextDerive]_vars

(* The aggregations on their own: the run stands before line 203 with a   *)
(* one-date selection, so that filtered_df is df, on tables that differ   *)
(* in category and price or in review score and duration; top_n is the    *)
(* caller's parameter of get_top_total_item_revenue_categories.           *)

InitAgg ==
    /\ \/ /\ source \in RevenueTables
          /\ tie \in Perms(Len(source))
          /\ top_n \in 1..MaxTopN
       \/ /\ source \in ReviewTables
          /\ tie = Identity(Len(source))
          /\ top_n = DefaultTopN
    /\ raised = "none"
    /\ df = sort_values(WithRevenue(Parsed(source)),
                        "order_delivered_customer_date", TRUE)
    /\ base = [set |-> TRUE, table |-> df]
    /\ min_date = MinSkipNa(Column(df, "order_delivered_customer_date"))
    /\ max_date = MaxSkipNa(Column(df, "order_delivered_customer_date"))
    /\ date_range = <<DateOf(min_date)>>
    /\ widget = [set |-> TRUE, value |-> date_range]
    /\ filtered_df = df
    /\ pc = "dashboard"
    /\ kpis = NoKpis
    /\ top_categories = <<>>
    /\ delivery_review_analysis = <<>>
    /\ avg_delivery = NaN
    /\ avg_review = NaN
    /\ performance_data = <<>>
    /\ memo = NoMemo

NextAgg == MainDashboard

SpecAgg == InitAgg /\ [][NextAgg]_vars

----------------------------------------------------------------------------
(* Properties *)

Filtered == pc \in {"dashboard", "done"}

IsRange == Len(date_range) = 2

Occurrences(t, r) == Cardinality({i \in 1..Len(t) : t[i] = r})

DeliveryDate(r) == r.order_delivered_customer_date

(* Sum of the non-missing values of a column over a set of rows of t. *)
RECURSIVE TotalOver(_, _, _)
TotalOver(t, I, col) ==
    IF I = {} THEN 0
    ELSE LET i == CHOOSE x \in I : TRUE
         IN (IF t[i][col] = Null THEN 0 ELSE t[i][col])
               + TotalOver(t, I \ {i}, col)

RowsWhere(t, col, v) == {i \in 1..Len(t) : t[i][col] = v}

(* C1: for a range [s,e] with s <= e, every row of the filtered table has *)
(* a non-null delivery date d with s <= d <= e, and no row occurs in the  *)
(* filtered table more often than in the base table.                      *)
C1_FilteredRowsInRange ==
    (Filtered /\ IsRange /\ date_range[1] <= date_range[2]) =>
        /\ \A i \in 1..Len(filtered_df) :
              LET d == DeliveryDate(filtered_df[i]) IN
              /\ d # Null
              /\ ToDatetime(date_range[1]) <= d
              /\ d <= ToDatetime(date_range[2])
              /\ DateOf(d) \in date_range[1]..date_range[2]
        /\ \A i \in 1..Len(filtered_df) :
              /\ Occurrences(filtered_df, filtered_df[i])
                    <= Occurrences(df, filtered_df[i])
              /\ Occurrences(df, filtered_df[i]) >= 1

C1_Witness ==
    /\ pc = "done"
    /\ IsRange
    /\ date_range[1] <= date_range[2]
    /\ Len(filtered_df) >= 1
    /\ Len(filtered_df) < Len(df)

(* C2: filtering with the table's own extremes, start = min_date and end  *)
(* = max_date as the date-range selection hands them over, returns every  *)
(* row with a non-null delivery date and only those.                      *)
C2_ExtremesKeepAllDatedRows ==
    (Filtered /\ date_range = <<DateOf(min_date), DateOf(max_date)>>) =>
        LET Dated(r) == DeliveryDate(r) # Null IN
        filtered_df = SelectSeq(df, Dated)

(* C3: a range whose start is after its end makes the filter fail with    *)
(* InvalidRangeError: no filtered table, no aggregation from that range.  *)
C3_InvertedRangeRaises ==
    (IsRange /\ date_range[1] > date_range[2] /\ pc # "filter") =>
        (pc = "failed" /\ raised = "InvalidRangeError")

(* C4: the top-N table has at most N entries, each the per-category sum   *)
(* of total_item_revenue, descending by sum, and of two adjacent entries  *)
(* with equal sums the earlier has the smaller category name.             *)
C4_TopCategoriesOrdered ==
    pc = "done" =>
        /\ Len(top_categories) <= top_n
        /\ \A k \in 1..Len(top_categories) :
              LET e == top_categories[k] IN
              /\ e.product_category_name_english # Null
              /\ e.total_item_revenue =
                    TotalOver(filtered_df,
                              RowsWhere(filtered_df,
                                        "product_category_name_english",
                                        e.product_category_name_english),
                              "total_item_revenue")
        /\ \A k \in 1..(Len(top_categories) - 1) :
              LET a == top_categories[k]
                  b == top_categories[k + 1]
              IN /\ a.total_item_revenue >= b.total_item_revenue
                 /\ a.total_item_revenue = b.total_item_revenue =>
                       a.product_category_name_english
                          < b.product_category_name_english

(* C5: the KPI summary of a filtered table with zero rows has all three   *)
(* totals 0 and signals the two means as NoDataError instead of NaN.      *)
C5_EmptyTableSignalsNoData ==
    (pc = "done" /\ filtered_df = <<>>) =>
        /\ kpis = NoKpis
        /\ raised = "NoDataError"

(* C6: after any sequence of filter applications the base table keeps its *)
(* rows, row order and columns, and the result of filtering by a range is *)
(* that range applied to the base table, whatever was applied before.     *)
C6_BaseTableUnchanged ==
    /\ pc \in {"bounds", "date_input", "filter", "dashboard", "done"} =>
          df = base.table
    /\ Filtered =>
          /\ filtered_df = IF IsRange
                           THEN DateFilter(base.table, date_range[1], date_range[2])
                           ELSE base.table
          /\ \A i \in 1..Len(filtered_df), j \in 1..Len(base.table) :
                DOMAIN filtered_df[i] = DOMAIN base.table[j]

C6_Witness ==
    /\ pc = "done"
    /\ widget.set
    /\ ~memo.set
    /\ IsRange
    /\ Len(filtered_df) < Len(df)

(* C7: after the derivation every row has total_item_revenue equal to     *)
(* price + freight_value, hence >= 0, when both are non-null, and a null  *)
(* total_item_revenue when either is null.                                *)
C7_RevenueDerived ==
    pc = "sort" =>
        /\ Len(df) = Len(source)
        /\ \A i \in 1..Len(df) :
              /\ "total_item_revenue" \in DOMAIN df[i]
              /\ df[i].price = source[i].price
              /\ df[i].freight_value = source[i].freight_value
              /\ (df[i].price # Null /\ df[i].freight_value # Null) =>
                    /\ df[i].total_item_revenue = df[i].price + df[i].freight_value
                    /\ df[i].total_item_revenue >= 0
              /\ (df[i].price = Null \/ df[i].freight_value = Null) =>
                    df[i].total_item_revenue = Null

C7_Witness ==
    /\ pc = "sort"
    /\ \E i \in 1..Len(df) : df[i].price = Null /\ df[i].freight_value # Null
    /\ \E i \in 1..Len(df) :
          /\ df[i].price # Null
          /\ df[i].freight_value # Null
          /\ df[i].total_item_revenue > df[i].price

(* C8: the duration-by-review-score table has exactly one entry per       *)
(* non-null review score of the filtered table, ascending by score, each  *)
(* with the mean delivery_duration of the rows of that score; rows with a *)
(* null score are in no entry and absent scores have no entry.            *)
C8_DurationByReviewScore ==
    pc = "done" =>
        /\ {performance_data[k].review_score : k \in 1..Len(performance_data)}
              = {filtered_df[i].review_score : i \in 1..Len(filtered_df)} \ {Null}
        /\ \A k \in 1..(Len(performance_data) - 1) :
              performance_data[k].review_score
                 < performance_data[k + 1].review_score
        /\ \A k \in 1..Len(performance_data) :
              LET I == RowsWhere(filtered_df, "review_score",
                                 performance_data[k].review_score)
              IN performance_data[k].delivery_duration =
                    << TotalOver(filtered_df, I, "delivery_duration"),
                       Cardinality({i \in I :
                                      filtered_df[i].delivery_duration # Null}) >>

C8_Witness ==
    /\ pc = "done"
    /\ Len(performance_data) = 1
    /\ Len(performance_data) < MaxScore
    /\ \E i \in 1..Len(filtered_df) : filtered_df[i].review_score = Null
    /\ performance_data[1].delivery_duration[2] = 1

C10_PartialSelectionNoFilter ==
    /\ (Filtered /\ ~IsRange) => filtered_df = df
    /\ (pc = "done" /\ ~IsRange) => kpis = display_kpis(df)
    /\ (Filtered /\ IsRange) =>
          \A i \in 1..Len(df) :
             (\E j \in 1..Len(filtered_df) : filtered_df[j] = df[i])
                <=> InRange(DeliveryDate(df[i]), date_range[1], date_range[2])

C10_Witness ==
    /\ pc = "done"
    /\ Len(date_range) = 1
    /\ \E i \in 1..Len(filtered_df) : DeliveryDate(filtered_df[i]) = Null
    /\ kpis.total_orders = Len(df)

====
